---- MODULE Spec2Model ----
(***************************************************************************)
(* Model of proj2.c: the post office simulation.  One orchestrator (main), *)
(* NZ client processes and NU worker processes share one SharedMemory      *)
(* block (lines_count, post_open, queue[3] and seven semaphores).          *)
(*                                                                         *)
(* Granularity.  Every read or write of shared memory made outside a       *)
(* critical section is a step of its own.  A critical section of mutex     *)
(* (sem_wait, one access, sem_post) is one step: no process blocks inside  *)
(* it and every write of queue[0..2] is inside one, so no other process    *)
(* can observe its inside.  A sem_post that follows an access is part of   *)
(* that access's step.  A log call is two steps, sem_wait(&output) with    *)
(* ++lines_count, then the write of the line with sem_post(&output), so    *)
(* that a process holding output is a state of the model.  random_sleep    *)
(* changes no state and is part of the step that follows it.               *)
(***************************************************************************)
EXTENDS Integers, FiniteSets, Sequences, TLC

\* Bounds of the model: the largest NZ and NU (argv[1], argv[2]), the largest
\* number of children forked in one run, the largest service a client draws,
\* and the number of times one worker may enter the break branch.
MaxNZ == 2
MaxNU == 2
MaxChildren == 3
MaxService == 1
MaxBreaks == 1

\* int queue[3]; sem_t queue_sem[3]
NumQueues == 3

Services == 1..NumQueues

VARIABLES
    NZ, NU,          \* argv[1], argv[2]: number of clients, number of workers
    lines_count,     \* memory->lines_count
    post_open,       \* memory->post_open
    queue,           \* memory->queue[0..2], indexed here by service 1..3
    output,          \* value word of sem_t output
    mutex,           \* value of sem_t mutex
    queue_sem,       \* values of sem_t queue_sem[0..2], indexed by service 1..3
    post_closed,     \* value of sem_t post_closed
    leaving,         \* value of sem_t leaving
    pc,              \* position of every process
    ln,              \* inside a log call: the value ++lines_count evaluated to, else 0
    mi,              \* main: the loop index i
    service,         \* client: int service
    is_post_open,    \* client: bool is_post_open
    is_leaving,      \* worker: bool is_leaving
    wqueue,          \* worker: int queue (0 outside the serving branch)
    wi,              \* worker: loop index i of the unblock loop
    breaks,          \* worker: number of times the break branch was entered
    file,            \* proj2.out: the number of lines written, and whether every line
                     \* so far carries the number of its position (1, 2, ...)
    first,           \* proj2.out: per process, the first line it wrote ("none" before)
    homes,           \* proj2.out: per process, the number of its "going home" lines
    clines,          \* proj2.out: per client, the lines it wrote, in order
    destroyed,       \* number of times SharedMemory_destroy has run
    signals,         \* per worker, the number of its sem_post(&memory->leaving)
    joined,          \* per service, the number of executions of queue[service - 1]++
    admitted         \* per service, the number of sem_post(&queue_sem[queue - 1])
                     \* executed in the serving branch

vars == <<NZ, NU, lines_count, post_open, queue, output, mutex, queue_sem,
          post_closed, leaving, pc, ln, mi, service, is_post_open,
          is_leaving, wqueue, wi, breaks, file, first, homes, clines, destroyed,
          signals, joined, admitted>>

shared == <<lines_count, post_open, queue, output, mutex, queue_sem, post_closed, leaving>>
clocals == <<service, is_post_open>>
wlocals == <<is_leaving, wqueue, wi, breaks>>
out == <<file, first, homes, clines>>
hist == <<signals, joined, admitted>>

M == <<"M", 0>>
Z(i) == <<"Z", i>>
U(i) == <<"U", i>>
Clients == {Z(i) : i \in 1..MaxNZ}
Workers == {U(i) : i \in 1..MaxNU}
Children == Clients \cup Workers
Procs == {M} \cup Children

\* The children main has forked in this run.
Forked == {p \in Children : pc[p] # "unborn"}

\* sem_wait returns once the semaphore's value word is not zero.
SemPositive(v) == v # 0

\* check_queues
check_queues(q) == q[1] > 0 \/ q[2] > 0 \/ q[3] > 0

\* The worker loop with the test of line 375 written as (has_clients && post_open).
Branch_BreakTest(has_clients, open) ==
    IF has_clients THEN "serve"
    ELSE IF has_clients /\ open THEN "break"
    ELSE IF ~has_clients /\ ~open THEN "close"
    ELSE "fallback"

\* The three if statements of the worker loop on (has_clients, post_open).
Branch(has_clients, open) ==
    IF has_clients THEN "serve"
    ELSE IF ~has_clients /\ open THEN "break"
    ELSE IF ~has_clients /\ ~open THEN "close"
    ELSE "fallback"

\* The positions at which a process calls its log function, and where it
\* continues after the call.
\* process_client without the exit(EXIT_SUCCESS) of line 304: the client goes
\* on to sem_wait(&memory->queue_sem[service - 1])
ClientAfterLog_NoExit ==
    [started |-> "check", entering |-> "wait_call", called |-> "going_home",
     going_home |-> "done", closed_home |-> "wait_call"]
ClientAfterLog ==
    [started |-> "check", entering |-> "wait_call", called |-> "going_home",
     going_home |-> "done", closed_home |-> "done"]
\* process_worker without the exit(EXIT_SUCCESS) after WA_FINISHED: the loop goes on
WorkerAfterLog_NoExit ==
    [started |-> "snap", serving |-> "service_finished",
     service_finished |-> "snap", taking_break |-> "break_check",
     break_finished |-> "snap", going_home |-> "snap"]
WorkerAfterLog ==
    [started |-> "snap", serving |-> "service_finished",
     service_finished |-> "snap", taking_break |-> "break_check",
     break_finished |-> "snap", going_home |-> "done"]
MainAfterLog == [closing |-> "dismiss"]

AfterLog(p) ==
    IF p = M THEN MainAfterLog
    ELSE IF p \in Clients THEN ClientAfterLog
    ELSE WorkerAfterLog

AtLog(p) == pc[p] \in DOMAIN AfterLog(p)

\* The text of the line a process at a log position writes: both calls with
\* CA_FINISHED write "going home".
LineOf(p) == IF pc[p] = "closed_home" THEN "going_home" ELSE pc[p]

\* The process is between sem_wait(&memory->output) and sem_post(&memory->output).
InLog(p) == ln[p] # 0

Init ==
    /\ NZ \in 1..MaxNZ
    /\ NU \in 1..MaxNU
    /\ NZ + NU <= MaxChildren
    /\ lines_count = 0
    /\ post_open = TRUE
    /\ queue = [s \in Services |-> 0]
    /\ output = 1
    /\ mutex = 1
    /\ queue_sem = [s \in Services |-> 0]
    /\ post_closed = 0
    /\ leaving = 0
    /\ pc = [p \in Procs |-> IF p = M THEN "fork_clients" ELSE "unborn"]
    /\ ln = [p \in Procs |-> 0]
    /\ mi = 0
    /\ service = [c \in Clients |-> 0]
    /\ is_post_open = [c \in Clients |-> FALSE]
    /\ is_leaving = [w \in Workers |-> FALSE]
    /\ wqueue = [w \in Workers |-> 0]
    /\ wi = [w \in Workers |-> 0]
    /\ breaks = [w \in Workers |-> 0]
    /\ file = [n |-> 0, ok |-> TRUE]
    /\ first = [p \in Procs |-> "none"]
    /\ homes = [p \in Procs |-> 0]
    /\ clines = [c \in Clients |-> <<>>]
    /\ destroyed = 0
    /\ signals = [w \in Workers |-> 0]
    /\ joined = [s \in Services |-> 0]
    /\ admitted = [s \in Services |-> 0]

----------------------------------------------------------------------------
\* log_client, log_worker, log_office

\* sem_wait(&memory->output); ++memory->lines_count
Log_Wait(p) ==
    /\ AtLog(p)
    /\ ~InLog(p)
    /\ SemPositive(output)
    /\ output' = output - 1
    /\ lines_count' = lines_count + 1
    /\ ln' = [ln EXCEPT ![p] = lines_count + 1]
    /\ UNCHANGED <<NZ, NU, post_open, queue, mutex, queue_sem,
                   post_closed, leaving, pc, mi, clocals, wlocals, out, destroyed, hist>>

\* fprintf and fflush of the line, sem_post(&memory->output), return
Log_Write(p) ==
    /\ InLog(p)
    /\ file' = [n |-> file.n + 1, ok |-> file.ok /\ ln[p] = file.n + 1]
    /\ first' = [first EXCEPT ![p] = IF @ = "none" THEN LineOf(p) ELSE @]
    /\ homes' = [homes EXCEPT ![p] = IF LineOf(p) = "going_home" THEN @ + 1 ELSE @]
    /\ clines' = IF p \in Clients
                 THEN [clines EXCEPT ![p] = Append(@, LineOf(p))] ELSE clines
    /\ output' = output + 1
    /\ ln' = [ln EXCEPT ![p] = 0]
    /\ pc' = [pc EXCEPT ![p] = AfterLog(p)[pc[p]]]
    \* the continue after WA_SERVING_END ends the scope of the worker's int queue
    /\ wqueue' = IF p \in Workers /\ pc[p] = "service_finished"
                 THEN [wqueue EXCEPT ![p] = 0] ELSE wqueue
    /\ UNCHANGED <<NZ, NU, lines_count, post_open, queue, mutex, queue_sem,
                   post_closed, leaving, mi, clocals, is_leaving, wi, breaks, destroyed, hist>>

----------------------------------------------------------------------------
\* process_client

\* random_sleep(0, TZ); service = random_int(1, 3);
\* sem_wait(&memory->mutex); is_post_open = memory->post_open; sem_post(&memory->mutex)
C_Check(c) ==
    /\ pc[c] = "check"
    /\ SemPositive(mutex)
    /\ \E s \in 1..MaxService : service' = [service EXCEPT ![c] = s]
    /\ is_post_open' = [is_post_open EXCEPT ![c] = post_open]
    /\ pc' = [pc EXCEPT ![c] = "decide"]
    /\ UNCHANGED <<NZ, NU, shared, ln, mi, wlocals, out, destroyed, hist>>

\* is_post_open && (is_post_open == memory->post_open), read without the mutex
ClientEnters(local_open, shared_open) == local_open /\ (local_open = shared_open)

\* the if on line 293
C_Decide(c) ==
    /\ pc[c] = "decide"
    /\ pc' = [pc EXCEPT ![c] = IF ClientEnters(is_post_open[c], post_open)
                               THEN "inc" ELSE "closed_home"]
    /\ UNCHANGED <<NZ, NU, shared, ln, mi, clocals, wlocals, out, destroyed, hist>>

\* sem_wait(&memory->mutex); memory->queue[service - 1]++; sem_post(&memory->mutex)
C_Inc(c) ==
    /\ pc[c] = "inc"
    /\ SemPositive(mutex)
    /\ queue' = [queue EXCEPT ![service[c]] = @ + 1]
    /\ joined' = [joined EXCEPT ![service[c]] = @ + 1]
    /\ pc' = [pc EXCEPT ![c] = "entering"]
    /\ UNCHANGED <<NZ, NU, lines_count, post_open, output, mutex, queue_sem,
                   post_closed, leaving, ln, mi, clocals, wlocals, out, destroyed,
                   signals, admitted>>

\* sem_wait(&memory->queue_sem[service - 1])
C_WaitCall(c) ==
    /\ pc[c] = "wait_call"
    /\ SemPositive(queue_sem[service[c]])
    /\ queue_sem' = [queue_sem EXCEPT ![service[c]] = @ - 1]
    /\ pc' = [pc EXCEPT ![c] = "called"]
    /\ UNCHANGED <<NZ, NU, lines_count, post_open, queue, output, mutex,
                   post_closed, leaving, ln, mi, clocals, wlocals, out, destroyed, hist>>

Client(c) ==
    \/ C_Check(c)
    \/ C_Decide(c)
    \/ C_Inc(c)
    \/ C_WaitCall(c)

----------------------------------------------------------------------------
\* process_worker

\* sem_wait(&memory->mutex); has_clients = check_queues(memory);
\* post_open = memory->post_open; sem_post(&memory->mutex); then the branch
\* taken on the two locals.  A worker that has used up its MaxBreaks break
\* iterations starts its next iteration only once a queue is non-empty or the
\* office is closed.
W_Snap(w) ==
    /\ pc[w] \in {"snap", "fallback"}
    /\ SemPositive(mutex)
    /\ LET b == Branch(check_queues(queue), post_open) IN
         /\ b = "break" => breaks[w] < MaxBreaks
         /\ pc' = [pc EXCEPT ![w] =
                      CASE b = "serve" -> "choose"
                        [] b = "break" -> "break_recheck"
                        [] b = "close" -> "close_recheck"
                        [] OTHER -> "fallback"]
         /\ breaks' = [breaks EXCEPT ![w] = IF b = "break" THEN @ + 1 ELSE @]
    /\ UNCHANGED <<NZ, NU, shared, ln, mi, clocals, is_leaving, wqueue, wi,
                   out, destroyed, hist>>

\* queue = random_int(1, 3); if (memory->queue[queue - 1] == 0) start the scan
W_Choose(w) ==
    /\ pc[w] = "choose"
    /\ \E q \in Services :
         IF queue[q] = 0
         THEN /\ wqueue' = [wqueue EXCEPT ![w] = 1]
              /\ pc' = [pc EXCEPT ![w] = "scan"]
         ELSE /\ wqueue' = [wqueue EXCEPT ![w] = q]
              /\ pc' = [pc EXCEPT ![w] = "dec"]
    /\ UNCHANGED <<NZ, NU, shared, ln, mi, clocals, is_leaving, wi, breaks,
                   out, destroyed, hist>>

\* one iteration of for (queue = 1; queue <= 3; queue++) if (memory->queue[queue - 1]) break;
\* the loop ends with queue = 4 when no read was non-zero
W_Scan(w) ==
    /\ pc[w] = "scan"
    /\ IF queue[wqueue[w]] # 0
       THEN /\ pc' = [pc EXCEPT ![w] = "dec"]
            /\ UNCHANGED wqueue
       ELSE /\ wqueue' = [wqueue EXCEPT ![w] = @ + 1]
            /\ pc' = [pc EXCEPT ![w] = IF wqueue[w] + 1 <= NumQueues
                                       THEN "scan" ELSE "dec"]
    /\ UNCHANGED <<NZ, NU, shared, ln, mi, clocals, is_leaving, wi, breaks,
                   out, destroyed, hist>>

\* sem_wait(&memory->mutex); memory->queue[queue - 1]--; sem_post(&memory->mutex);
\* sem_post(&memory->queue_sem[queue - 1]), with queue in 1..3
Serve_InBounds(w, q) ==
    /\ queue' = [queue EXCEPT ![q] = @ - 1]
    /\ queue_sem' = [queue_sem EXCEPT ![q] = @ + 1]
    /\ wqueue' = [wqueue EXCEPT ![w] = q]
    /\ admitted' = [admitted EXCEPT ![q] = @ + 1]
    /\ UNCHANGED <<output, post_closed>>

\* The same statements with queue = 4: both accesses are outside the arrays
\* and undefined.  In struct mem the word after queue[2] is the value word of
\* sem_t output and the semaphore after queue_sem[2] is post_closed.
Serve_Adjacent(w) ==
    /\ output' = output - 1
    /\ post_closed' = post_closed + 1
    /\ UNCHANGED <<queue, queue_sem, wqueue, admitted>>

\* lines 359-364.  With queue = 4 the outcome is one of: the accesses land on
\* the adjacent members of struct mem; the build has taken the accesses to be
\* inside the arrays, so that the scan ended with queue = 3.
W_Dec(w) ==
    /\ pc[w] = "dec"
    /\ SemPositive(mutex)
    /\ pc' = [pc EXCEPT ![w] = "serving"]
    /\ \/ /\ wqueue[w] \in Services
          /\ Serve_InBounds(w, wqueue[w])
       \/ /\ wqueue[w] \notin Services
          /\ Serve_Adjacent(w)
       \/ /\ wqueue[w] \notin Services
          /\ Serve_InBounds(w, NumQueues)
    /\ UNCHANGED <<NZ, NU, lines_count, post_open, mutex, leaving,
                   ln, mi, clocals, is_leaving, wi, breaks, out, destroyed,
                   signals, joined>>

\* if (!memory->post_open) continue; on line 377
W_BreakRecheck(w) ==
    /\ pc[w] = "break_recheck"
    /\ pc' = [pc EXCEPT ![w] = IF ~post_open THEN "snap" ELSE "taking_break"]
    /\ UNCHANGED <<NZ, NU, shared, ln, mi, clocals, wlocals, out, destroyed, hist>>

\* lines 386-390 without is_leaving = 1
W_BreakCheck_NoFlag(w) ==
    /\ pc[w] = "break_check"
    /\ IF ~post_open
       THEN /\ leaving' = leaving + 1
            /\ signals' = [signals EXCEPT ![w] = @ + 1]
       ELSE UNCHANGED <<leaving, signals>>
    /\ pc' = [pc EXCEPT ![w] = "break_finished"]
    /\ UNCHANGED <<NZ, NU, lines_count, post_open, queue, output, mutex, queue_sem,
                   post_closed, ln, mi, clocals, wlocals, out, destroyed,
                   joined, admitted>>

\* if (!memory->post_open) { sem_post(&memory->leaving); is_leaving = 1; } on line 386
W_BreakCheck(w) ==
    /\ pc[w] = "break_check"
    /\ IF ~post_open
       THEN /\ leaving' = leaving + 1
            /\ signals' = [signals EXCEPT ![w] = @ + 1]
            /\ is_leaving' = [is_leaving EXCEPT ![w] = TRUE]
       ELSE UNCHANGED <<leaving, signals, is_leaving>>
    /\ pc' = [pc EXCEPT ![w] = "break_finished"]
    /\ UNCHANGED <<NZ, NU, lines_count, post_open, queue, output, mutex, queue_sem,
                   post_closed, ln, mi, clocals, wqueue, wi, breaks, out, destroyed,
                   joined, admitted>>

\* lines 400-409 without the test of is_leaving
W_CloseRecheck_Unguarded(w) ==
    /\ pc[w] = "close_recheck"
    /\ IF check_queues(queue)
       THEN /\ pc' = [pc EXCEPT ![w] = "snap"]
            /\ UNCHANGED <<leaving, signals>>
       ELSE /\ pc' = [pc EXCEPT ![w] = "unblock"]
            /\ leaving' = leaving + 1
            /\ signals' = [signals EXCEPT ![w] = @ + 1]
    /\ UNCHANGED <<NZ, NU, lines_count, post_open, queue, output, mutex, queue_sem,
                   post_closed, ln, mi, clocals, wlocals, out, destroyed,
                   joined, admitted>>

\* if (check_queues(memory)) continue; if (!is_leaving) sem_post(&memory->leaving);
\* on lines 400-409
W_CloseRecheck(w) ==
    /\ pc[w] = "close_recheck"
    /\ IF check_queues(queue)
       THEN /\ pc' = [pc EXCEPT ![w] = "snap"]
            /\ UNCHANGED <<leaving, signals>>
       ELSE /\ pc' = [pc EXCEPT ![w] = "unblock"]
            /\ IF ~is_leaving[w]
               THEN /\ leaving' = leaving + 1
                    /\ signals' = [signals EXCEPT ![w] = @ + 1]
               ELSE UNCHANGED <<leaving, signals>>
    /\ UNCHANGED <<NZ, NU, lines_count, post_open, queue, output, mutex, queue_sem,
                   post_closed, ln, mi, clocals, wlocals, out, destroyed,
                   joined, admitted>>

\* one iteration of for (i = 0; i < 3; i++) if (memory->queue[i] > 0) sem_post(&memory->queue_sem[i]);
W_Unblock(w) ==
    /\ pc[w] = "unblock"
    /\ queue_sem' = IF queue[wi[w] + 1] > 0
                    THEN [queue_sem EXCEPT ![wi[w] + 1] = @ + 1]
                    ELSE queue_sem
    /\ IF wi[w] + 1 < NumQueues
       THEN /\ wi' = [wi EXCEPT ![w] = @ + 1]
            /\ UNCHANGED pc
       ELSE /\ wi' = [wi EXCEPT ![w] = 0]
            /\ pc' = [pc EXCEPT ![w] = "wait_closed"]
    /\ UNCHANGED <<NZ, NU, lines_count, post_open, queue, output, mutex,
                   post_closed, leaving, ln, mi, clocals, is_leaving, wqueue,
                   breaks, out, destroyed, hist>>

\* sem_wait(&memory->post_closed)
W_WaitClosed(w) ==
    /\ pc[w] = "wait_closed"
    /\ SemPositive(post_closed)
    /\ post_closed' = post_closed - 1
    /\ pc' = [pc EXCEPT ![w] = "going_home"]
    /\ UNCHANGED <<NZ, NU, lines_count, post_open, queue, output, mutex, queue_sem,
                   leaving, ln, mi, clocals, wlocals, out, destroyed, hist>>

Worker(w) ==
    \/ W_Snap(w)
    \/ W_Choose(w)
    \/ W_Scan(w)
    \/ W_Dec(w)
    \/ W_BreakRecheck(w)
    \/ W_BreakCheck(w)
    \/ W_CloseRecheck(w)
    \/ W_Unblock(w)
    \/ W_WaitClosed(w)

----------------------------------------------------------------------------
\* main

\* a successful fork() in the client loop: the child runs process_client
M_ForkClient ==
    /\ pc[M] = "fork_clients"
    /\ pc' = [pc EXCEPT ![Z(mi + 1)] = "started",
                        ![M] = IF mi + 1 < NZ THEN @ ELSE "fork_workers"]
    /\ mi' = IF mi + 1 < NZ THEN mi + 1 ELSE 0
    /\ UNCHANGED <<NZ, NU, shared, ln, clocals, wlocals, out, destroyed, hist>>

\* a successful fork() in the worker loop: the child runs process_worker
M_ForkWorker ==
    /\ pc[M] = "fork_workers"
    /\ pc' = [pc EXCEPT ![U(mi + 1)] = "started",
                        ![M] = IF mi + 1 < NU THEN @ ELSE "sleep"]
    /\ mi' = IF mi + 1 < NU THEN mi + 1 ELSE 0
    /\ UNCHANGED <<NZ, NU, shared, ln, clocals, wlocals, out, destroyed, hist>>

\* fork() returns -1: SharedMemory_destroy(shared); error("Failed to fork a process")
M_ForkFail ==
    /\ pc[M] \in {"fork_clients", "fork_workers"}
    /\ destroyed' = destroyed + 1
    /\ pc' = [pc EXCEPT ![M] = "failed"]
    /\ UNCHANGED <<NZ, NU, shared, ln, mi, clocals, wlocals, out, hist>>

\* random_sleep(F / 2, F); shared->post_open = 0
M_Close ==
    /\ pc[M] = "sleep"
    /\ post_open' = FALSE
    /\ pc' = [pc EXCEPT ![M] = "barrier"]
    /\ UNCHANGED <<NZ, NU, lines_count, queue, output, mutex, queue_sem, post_closed,
                   leaving, ln, mi, clocals, wlocals, out, destroyed, hist>>

\* lines 497-499 as a single sem_wait(&shared->leaving)
M_Barrier_Once ==
    /\ pc[M] = "barrier"
    /\ SemPositive(leaving)
    /\ leaving' = leaving - 1
    /\ mi' = 0
    /\ pc' = [pc EXCEPT ![M] = "closing"]
    /\ UNCHANGED <<NZ, NU, lines_count, post_open, queue, output, mutex, queue_sem,
                   post_closed, ln, clocals, wlocals, out, destroyed, hist>>

\* one iteration of for (i = 0; i < NU; i++) sem_wait(&shared->leaving)
M_Barrier ==
    /\ pc[M] = "barrier"
    /\ SemPositive(leaving)
    /\ leaving' = leaving - 1
    /\ mi' = IF mi + 1 < NU THEN mi + 1 ELSE 0
    /\ pc' = [pc EXCEPT ![M] = IF mi + 1 < NU THEN @ ELSE "closing"]
    /\ UNCHANGED <<NZ, NU, lines_count, post_open, queue, output, mutex, queue_sem,
                   post_closed, ln, clocals, wlocals, out, destroyed, hist>>

\* one iteration of for (i = 0; i < NU; i++) sem_post(&shared->post_closed)
M_Dismiss ==
    /\ pc[M] = "dismiss"
    /\ post_closed' = post_closed + 1
    /\ mi' = IF mi + 1 < NU THEN mi + 1 ELSE 0
    /\ pc' = [pc EXCEPT ![M] = IF mi + 1 < NU THEN @ ELSE "reap"]
    /\ UNCHANGED <<NZ, NU, lines_count, post_open, queue, output, mutex, queue_sem,
                   leaving, ln, clocals, wlocals, out, destroyed, hist>>

\* while (wait(NULL)) if (errno == ECHILD) break;  wait blocks while a child
\* runs and fails with ECHILD once every child has exited and been reaped
M_Reap ==
    /\ pc[M] = "reap"
    /\ \A p \in Forked : pc[p] = "done"
    /\ pc' = [pc EXCEPT ![M] = "destroy"]
    /\ UNCHANGED <<NZ, NU, shared, ln, mi, clocals, wlocals, out, destroyed, hist>>

\* SharedMemory_destroy(shared); return 0
M_Destroy ==
    /\ pc[M] = "destroy"
    /\ destroyed' = destroyed + 1
    /\ pc' = [pc EXCEPT ![M] = "done"]
    /\ UNCHANGED <<NZ, NU, shared, ln, mi, clocals, wlocals, out, hist>>

Main ==
    \/ M_ForkClient
    \/ M_ForkWorker
    \/ M_ForkFail
    \/ M_Close
    \/ M_Barrier
    \/ M_Dismiss
    \/ M_Reap
    \/ M_Destroy

Log(p) == Log_Wait(p) \/ Log_Write(p)

Next ==
    \/ Main
    \/ \E p \in Procs : Log(p)
    \/ \E c \in Clients : Client(c)
    \/ \E w \in Workers : Worker(w)

Spec == Init /\ [][Next]_vars

\* Every process that can take a step is eventually scheduled.
Fairness ==
    /\ WF_vars(Main)
    /\ \A p \in Procs : WF_vars(Log(p))
    /\ \A c \in Clients : WF_vars(Client(c))
    /\ \A w \in Workers : WF_vars(Worker(w))

FairSpec == Spec /\ Fairness

----------------------------------------------------------------------------
\* What the formulas below talk about.

\* Process p writes its line in this step.
Writes(p) == InLog(p) /\ ln'[p] = 0

\* The "closing" line is in proj2.out.
ClosingWritten == first[M] = "closing"

\* main has forked every child: no fork() failed.
AllForked == pc[M] \notin {"fork_clients", "fork_workers", "failed"}

\* The positions of a worker inside the serving branch (lines 347-373).
ServingPcs == {"choose", "scan", "dec", "serving", "service_finished"}

ForkedClients == Forked \cap Clients

\* The positions at which a process is blocked in, or about to call, sem_wait
\* on queue_sem, leaving or post_closed.
BlockingPcs == {"wait_call", "barrier", "wait_closed"}

\* The clients of service q that have passed sem_wait(&queue_sem[q - 1]).
Called(q) ==
    {c \in Clients : service[c] = q /\
        (pc[c] = "called" \/ \E k \in 1..Len(clines[c]) : clines[c][k] = "called")}
ForkedWorkers == Forked \cap Workers

----------------------------------------------------------------------------
\* C1: under fair scheduling, once main has forked all children every client
\* terminates: no client stays blocked on queue_sem, so main's wait loop
\* completes.
C1_ClientsTerminate ==
    AllForked ~> (\A c \in ForkedClients : pc[c] = "done")

\* C2: no worker writes a "serving a service" line once the "closing" line
\* is in the log.
C2_NoServingAfterClosing ==
    [][\A w \in Workers :
          (Writes(w) /\ LineOf(w) = "serving") => ~ClosingWritten]_vars

\* C3: in every reachable state each of queue[0..2] is >= 0.
C3_QueueNonNegative == \A s \in Services : queue[s] >= 0

\* C4: when main reaches the destroy step (all children have exited and
\* been reaped) every queue counter is 0.
C4_QueuesZeroAtDestroy ==
    pc[M] \in {"destroy", "done"} => \A s \in Services : queue[s] = 0

\* C5: at the moment main writes the "closing" line every queue counter is 0
\* and no worker is inside the serving branch.
C5_ClosedOnlyWhenEmpty ==
    [][(Writes(M) /\ LineOf(M) = "closing") =>
          /\ \A s \in Services : queue[s] = 0
          /\ \A w \in Workers : pc[w] \notin ServingPcs]_vars

\* C6: the numbers written to the log are 1, 2, ..., n in write order,
\* lines_count counts one increment per log entry, and at most one process
\* is inside a log call's critical section.
C6_LogNumbersContiguous ==
    /\ file.ok
    /\ Cardinality({p \in Procs : InLog(p)}) <= 1
    /\ lines_count = file.n + Cardinality({p \in Procs : InLog(p)})

\* C7: under fair scheduling the closing handshake completes: once main has
\* set post_open = 0, eventually the "closing" line is written and every
\* worker has written "going home" and exited.
C7_HandshakeCompletes ==
    (~post_open) ~> (ClosingWritten /\ \A w \in ForkedWorkers :
                                          pc[w] = "done" /\ homes[w] = 1)

\* A worker that has run to its exit: "started" first, a break, "going home".
C8_Witness ==
    \E w \in Workers :
        pc[w] = "done" /\ first[w] = "started" /\ homes[w] = 1 /\ breaks[w] >= 1

\* C8: for every worker, "started" is its first line, it writes "going home"
\* at most once, and it writes no line after "going home".
C8_WorkerLogOrder ==
    [][\A w \in Workers :
          Writes(w) =>
             /\ homes[w] = 0
             /\ (LineOf(w) = "started") = (first[w] = "none")]_vars

\* C9: SharedMemory_destroy runs at most once, and only when every child
\* that was forked has exited.
C9_DestroyAfterChildren ==
    /\ destroyed <= 1
    /\ destroyed >= 1 => \A p \in Forked : pc[p] = "done"

\* C10: no client increments its queue counter when post_open is already
\* false, and no worker takes an (empty, closed) snapshot while a client is
\* between its successful check of post_open and its increment.
C10_AtomicCheckAndJoin ==
    [][/\ \A c \in Clients :
             (pc[c] = "inc" /\ pc'[c] = "entering") => post_open
       /\ \A w \in Workers :
             (pc[w] \in {"snap", "fallback"} /\ pc'[w] = "close_recheck")
                => \A c \in Clients : pc[c] # "inc"]_vars

\* A worker that signalled leaving during its break and has since gone
\* through the closing branch, where the test of is_leaving held it back.
C11_Witness ==
    \E w \in Workers :
        is_leaving[w] /\ signals[w] = 1 /\ pc[w] = "wait_closed"

\* C11: every worker executes sem_post(&memory->leaving) at most once in its
\* lifetime, counting the break branch and the closing branch, so the number
\* of signals on leaving never exceeds NU.
C11_SignalsAtMostOnce ==
    /\ \A w \in Workers : signals[w] <= 1
    /\ \A w \in Workers \ ForkedWorkers : signals[w] = 0
    /\ Cardinality(ForkedWorkers) <= NU
    /\ leaving <= NU

\* "closing" is in the log of a run with two workers, one of which signalled
\* during its break and the other in the closing branch.
C12_Witness ==
    /\ ClosingWritten
    /\ NU = 2
    /\ \E w \in Workers : is_leaving[w]
    /\ \E w \in Workers : ~is_leaving[w] /\ signals[w] = 1

\* C12: main writes the "closing" line only in a state where each of the NU
\* workers has already signalled leaving.
C12_ClosingAfterAllSignalled ==
    [][(Writes(M) /\ LineOf(M) = "closing") =>
          \A i \in 1..NU : signals[U(i)] >= 1]_vars

\* C13: no worker writes "going home" before the "closing" line is written,
\* and post_closed is signalled by main's dismiss loop only.
C13_HomeAfterClosing ==
    [][/\ \A w \in Workers :
             (Writes(w) /\ LineOf(w) = "going_home") => ClosingWritten
       /\ post_closed' > post_closed =>
             (pc[M] = "dismiss" /\ pc'[M] \in {"dismiss", "reap"})]_vars

\* C14: whenever a worker executes the decrement and the signal of lines
\* 359-364, its queue index is in 1..3 and that counter is > 0.
C14_DecrementValid ==
    [][\A w \in Workers :
          (pc[w] = "dec" /\ pc'[w] = "serving") =>
             (wqueue[w] \in Services /\ queue[wqueue[w]] > 0)]_vars

\* C15: for every service q the number of serving-branch signals on
\* queue_sem[q - 1] is at most the number of clients that incremented
\* queue[q - 1], and the number of clients called on q is at most the number
\* of serving-branch signals on it.
C15_OneClientPerSignal ==
    \A q \in Services :
        /\ admitted[q] <= joined[q]
        /\ Cardinality(Called(q)) <= admitted[q]

\* C16: every decision of a client or a worker is made on the values it read
\* under the mutex: a client enters exactly when its locked read of post_open
\* was true, a worker whose snapshot was (no clients, open) takes its break,
\* and a worker whose snapshot was (no clients, closed) goes on to signal
\* leaving; no later value of post_open or queue changes the decision.
C16_DecisionsUnderLock ==
    [][/\ \A c \in Clients :
             (pc[c] = "decide" /\ pc'[c] # "decide") =>
                 ((pc'[c] = "inc") = is_post_open[c])
       /\ \A w \in Workers :
             (pc[w] = "break_recheck" /\ pc'[w] # "break_recheck") =>
                 pc'[w] = "taking_break"
       /\ \A w \in Workers :
             (pc[w] = "close_recheck" /\ pc'[w] # "close_recheck") =>
                 pc'[w] = "unblock"]_vars

\* C17: a process that holds output is inside its log call, not at a wait on
\* queue_sem, leaving or post_closed; mutex is released within the step that
\* took it, so no process holds both; and at most one process holds output.
C17_LockDiscipline ==
    /\ \A p \in Procs : InLog(p) => (AtLog(p) /\ pc[p] \notin BlockingPcs)
    /\ mutex = 1
    /\ \A p, q \in Procs : (InLog(p) /\ InLog(q)) => p = q

\* The only worker of a run has served a client, has taken a break and has
\* left through the closing branch: every branch of the loop was taken.
C18_Witness ==
    /\ NU = 1
    /\ pc[U(1)] = "done"
    /\ breaks[U(1)] >= 1
    /\ \E q \in Services : admitted[q] >= 1

\* C18: the three branches of the worker loop cover every snapshot
\* (has_clients, post_open) and exclude each other, and no worker ever
\* reaches the statement after them at the end of the loop body.
C18_FallbackUnreachable ==
    /\ \A h, o \in BOOLEAN : Branch(h, o) \in {"serve", "break", "close"}
    /\ \A w \in Workers : pc[w] # "fallback"

\* A client that found the office closed has exited.
C19_Witness ==
    \E c \in Clients :
        pc[c] = "done" /\ clines[c] = <<"started", "going_home">>

\* C19: a client whose check finds the office closed takes the else branch;
\* there it has written "started" only, its steps change none of queue,
\* post_open, queue_sem, leaving and post_closed, it writes "going home" and
\* exits, and it writes nothing afterwards.
C19_ClosedClientGoesHome ==
    [][\A c \in Clients :
          /\ (pc[c] = "decide" /\ pc'[c] # "decide" /\ ~is_post_open[c]) =>
                 pc'[c] = "closed_home"
          /\ (pc[c] \in {"check", "decide"} /\ pc'[c] = "closed_home") =>
                 UNCHANGED <<queue, post_open, queue_sem, leaving, post_closed>>
          /\ pc[c] = "closed_home" =>
                 /\ clines[c] = <<"started">>
                 /\ pc'[c] \in {"closed_home", "done"}
                 /\ ln'[c] # ln[c] =>
                       UNCHANGED <<queue, post_open, queue_sem, leaving, post_closed>>
                 /\ pc'[c] = "done" => clines'[c] = <<"started", "going_home">>
          /\ pc[c] = "done" => (pc'[c] = "done" /\ clines'[c] = clines[c])]_vars

\* "closing" is in the log while a worker that wrote "taking break" before it
\* has still to write "break finished".
C20_Witness ==
    /\ ClosingWritten
    /\ \E w \in Workers : pc[w] = "break_finished" /\ is_leaving[w]

\* C20: no worker writes a "taking break" line once the "closing" line is in
\* the log.
C20_NoBreakAfterClosing ==
    [][\A w \in Workers :
          (Writes(w) /\ LineOf(w) = "taking_break") => ~ClosingWritten]_vars

====
